---- MODULE Spec2Model ----
(***************************************************************************)
(* State-machine model of SaitoClient (src/unnamed/part_000): the socket   *)
(* lifecycle callbacks installed by connect(), the handshake handler, the  *)
(* two timers set by connect(), disconnect() and the send operations.      *)
(*                                                                         *)
(* Every connect() call creates one socket, one promise and one 30 s       *)
(* timer; the three are kept in one slot of Calls.  A slot is reused by a  *)
(* later connect() once its socket is closed, its promise settled and its  *)
(* timer fired, so the number of calls is unbounded while the number of    *)
(* calls alive at the same time is MaxLive.                                *)
(*                                                                         *)
(* The key, signing, Wallet and Transaction functions (src/unnamed/        *)
(* part_002, src/src/crypto/sign.ts, src/src/wallet/Wallet.ts,             *)
(* src/src/transaction/Transaction.ts) are operators over byte and         *)
(* character sequences; SpecWallet and SpecTx apply them to bounded sets   *)
(* of keys, signatures and transactions.                                   *)
(***************************************************************************)
EXTENDS Integers, Sequences, FiniteSets, TLC

\* ---------------------------------------------------------------- bounds
MaxLive == 2        \* connect() calls alive at the same time
MaxTimers == 1      \* reconnect timers pending at the same time

\* ------------------------------------------------------ program constants
maxReconnectAttempts == 10
reconnectDelay == 3000
handshakeTimeout == 30000

Calls == 1..MaxLive
Null == 0

\* readyState of a ws socket; NONE: the slot holds no socket
ReadyStates == {"NONE", "CONNECTING", "OPEN", "CLOSING", "CLOSED"}

\* handshake steps an inbound handshake frame may carry
Steps == -1..4

\* values of challenge_mine in an inbound step-1 handshake frame
Challenges == {7, 12}

\* types the application passes to sendCustomMessage
CustomTypes == {"custom", "handshake"}

\* request tags of inbound frames other than 'handshake'
Tags == {"transaction", "block", "custom", "ping"}

\* inbound frames: the request tag, for a handshake frame its step and, at
\* step 1, its challenge_mine.  parses: JSON.parse accepts the frame;
\* hasData: the frame carries a data member.
Frame(request, step, challenge, parses, hasData) ==
  [request |-> request, step |-> step, challenge |-> challenge,
   parses |-> parses, hasData |-> hasData]

Frames ==
  {Frame("handshake", s, 0, TRUE, TRUE) : s \in Steps \ {1}}
    \cup {Frame("handshake", 1, ch, TRUE, TRUE) : ch \in Challenges}
    \cup {Frame(t, 0, 0, TRUE, TRUE) : t \in Tags}
    \cup {Frame(t, 0, 0, TRUE, FALSE) : t \in {"handshake", "transaction"}}
    \cup {Frame("malformed", 0, 0, FALSE, FALSE)}

ErrNone == "none"
ErrNotConnected == "Not connected to node"
ErrSocketNotConnected == "WebSocket not connected"
ErrSerialize == "serialize failed"
ErrMalformed == "malformed frame"

VARIABLES
  endpointValid,      \* new WebSocket(config.endpoint) does not throw
  errorListener,      \* the application subscribed to the client's 'error' event
  autoReconnect,      \* config.autoReconnect
  socket,             \* this.socket: Null or the slot of the current socket
  connected,          \* this.connected
  handshakeComplete,  \* this.handshakeComplete
  reconnectAttempts,  \* this.reconnectAttempts
  readyState,         \* readyState of the socket of each slot
  everOpen,           \* the socket of the slot has emitted 'open'
  promise,            \* state of the promise connect() returned, per slot
  hsTimers,           \* pending 30 s timers, in the order they were set
  reconnectTimers,    \* delays of the pending reconnect timers, in order
  crashed,            \* an exception left an event handler uncaught
  disconnectCalled,   \* disconnect() has been called (history)
  autoSinceOpen,      \* reconnect timers fired since the last 'open' (history,
                      \* counted under SpecRetry only)
  gaveUp,             \* 1: a 'close' found the attempt counter at the maximum;
                      \* 2: and the application called connect() afterwards,
                      \* with no automatic connect() since (history, counted
                      \* under SpecGiveUp only)
  responded,          \* per slot: a step-1 frame received on its socket since
                      \* the socket opened was answered (history, counted
                      \* under SpecHandshake only)
  unawaited,          \* per slot: its connect() call was made by a reconnect
                      \* timer, which drops the promise (history, counted
                      \* under SpecReconnect only)
  ev,                 \* the step just taken (history)
  tx,                 \* a Transaction object the application builds
  held,               \* the Wallet object the application holds
  op                  \* the call just made on tx or on a wallet (history)

vars ==
  << endpointValid, errorListener, autoReconnect, socket, connected,
     handshakeComplete, reconnectAttempts, readyState, everOpen, promise,
     hsTimers, reconnectTimers, crashed, disconnectCalled, autoSinceOpen,
     gaveUp, responded, unawaited, ev, tx, held, op >>

\* the fields of SaitoClient and of its sockets, promises and timers
progVars ==
  << autoReconnect, socket, connected, handshakeComplete, reconnectAttempts,
     readyState, everOpen, promise, hsTimers, reconnectTimers, crashed >>

config == << endpointValid, errorListener >>

\* the objects of the transaction and wallet classes; the client's steps
\* leave them alone
codec == << tx, held, op >>

\* the history variables, each counted under one specification only
hist == << autoSinceOpen, gaveUp, responded, unawaited >>

\* the payload of a frame the client wrote: the members of the step-2
\* handshake response the peer checks (ts, the client's own random
\* challenge_mine and the constant peer flags are left out)
NoData ==
  [step |-> 0, challenge_peer |-> 0, challenge_proof |-> << >>,
   publicKey |-> << >>]

\* arg: the step of a handshake frame received (-2 for any other frame), the
\* delay of a timer that fired, 0 otherwise.  error: what the step threw or,
\* for an inbound frame, what handleMessage caught.  wrote: the request tag
\* of the frame the step wrote to this.socket, data: its payload.  request:
\* the tag of the inbound frame, challenge: its challenge_mine, channel:
\* where handleMessage dispatched it.
EventFull(kind, call, arg, error, wrote, data, request, challenge, channel) ==
  [kind |-> kind, call |-> call, arg |-> arg, error |-> error,
   wrote |-> wrote, data |-> data, request |-> request,
   challenge |-> challenge, channel |-> channel]

Event(kind, call, arg, error, wrote) ==
  EventFull(kind, call, arg, error, wrote, NoData, "none", 0, "none")

SeqMembers(s) == {s[i] : i \in 1..Len(s)}

\* --------------------------------------------------------------- helpers

\* isReady()
isReady == connected /\ handshakeComplete

\* mutant: sendTransaction tests this.connected only
notReady_connectedOnly(conn, hc) == ~conn

\* sendTransaction's guard: it throws iff the client is not ready
notReady(conn, hc) == ~conn \/ ~hc

\* mutant: sendMessage refuses a CLOSED socket only
canSend_notClosed(sk, rs) == sk # Null /\ rs[sk] # "CLOSED"

\* sendMessage's guard: the frame is written iff this.socket is set and OPEN
canSend(sk, rs) == sk # Null /\ rs[sk] = "OPEN"

\* mutant: the handshake counts as complete from step 2 on
handshakeDone_early(step) == step >= 2

\* handleHandshake: the step that completes the handshake
handshakeDone(step) == step >= 3

\* mutant: every step below 2 is answered
handshakeInit_loose(step) == step <= 1

\* handleHandshake: the step answered with a step-2 response
handshakeInit(step) == step = 1

\* emit('handshake-complete'): every once-listener registered by a connect()
\* call runs and resolves that call's promise.  A listener is removed only
\* by this emit, so every pending promise still has its listener.
emitHandshakeComplete(pr) ==
  [c \in Calls |-> IF pr[c] = "pending" THEN "resolved" ELSE pr[c]]

\* mutant: the rejection settles every pending connect() call
reject_everyCall(pr, c, reason) ==
  [d \in Calls |-> IF pr[d] = "pending" THEN reason ELSE pr[d]]

\* reject(reason) on a promise: settles it only if it is still pending
reject(pr, c, reason) ==
  IF pr[c] = "pending" THEN [pr EXCEPT ![c] = reason] ELSE pr

\* the socket 'error' handler rejects iff the client is not connected
errorRejects(conn) == ~conn

\* mutant: the 30 s timer tests this.connected instead of handshakeComplete
timeoutRejects_connected(hc) == ~connected

\* the 30 s timer rejects iff the handshake is not complete
timeoutRejects(hc) == ~hc

\* mutant: the 'close' handler allows one attempt more than the maximum
shouldReconnect_offByOne(auto, attempts) ==
  auto /\ attempts <= maxReconnectAttempts

\* mutant: the 'close' handler ignores config.autoReconnect
shouldReconnect_always(auto, attempts) == attempts < maxReconnectAttempts

\* the 'close' handler schedules a reconnect
shouldReconnect(auto, attempts) == auto /\ attempts < maxReconnectAttempts

\* mutant: the reconnect is scheduled without the configured delay
scheduleReconnect_now(timers) == Append(timers, 0)

\* setTimeout(() => this.connect(), this.config.reconnectDelay)
scheduleReconnect(timers) == Append(timers, reconnectDelay)

\* socket.close() of ws: no effect on a CLOSED socket, CLOSING otherwise
wsClose(state) == IF state = "CLOSED" THEN "CLOSED" ELSE "CLOSING"

\* mutant: disconnect() closes the socket and keeps the reference to it
disconnectFn_keepSocket(st) ==
  [autoReconnect |-> FALSE,
   socket |-> st.socket,
   readyState |->
     IF st.socket # Null
       THEN [st.readyState EXCEPT ![st.socket] = wsClose(st.readyState[st.socket])]
       ELSE st.readyState,
   closed |-> IF st.socket # Null THEN {st.socket} ELSE {}]

\* disconnect() as a function of the fields it reads and writes; closed is
\* the set of sockets whose close() it called
disconnectFn(st) ==
  [autoReconnect |-> FALSE,
   socket |-> Null,
   readyState |->
     IF st.socket # Null
       THEN [st.readyState EXCEPT ![st.socket] = wsClose(st.readyState[st.socket])]
       ELSE st.readyState,
   closed |-> IF st.socket # Null THEN {st.socket} ELSE {}]

clientState ==
  [autoReconnect |-> autoReconnect, socket |-> socket,
   readyState |-> readyState, closed |-> {}]

\* mutant: the 'open' handler leaves the attempt counter as it is
attemptsOnOpen_keep(attempts) == attempts

\* the 'open' handler: this.reconnectAttempts = 0
attemptsOnOpen(attempts) == 0

\* mutant: the 'close' handler clears this.connected only
flagsOnClose_keepHandshake(conn, hc) ==
  [connected |-> FALSE, handshakeComplete |-> hc]

\* the 'close' handler: this.connected = false; this.handshakeComplete = false
flagsOnClose(conn, hc) ==
  [connected |-> FALSE, handshakeComplete |-> FALSE]

\* mutant: 'block' frames go to the generic channel
dispatch_blockGeneric(request) ==
  CASE request = "handshake" -> "handshake"
    [] request = "transaction" -> "transaction"
    [] OTHER -> "message:" \o request

\* handleMessage's switch: the destination of a frame with this request tag
dispatch(request) ==
  CASE request = "handshake" -> "handshake"
    [] request = "transaction" -> "transaction"
    [] request = "block" -> "block"
    [] OTHER -> "message:" \o request

\* ------------------------------------------------------- keys and signing
\* Strings are sequences of characters: a decimal string is the sequence of
\* its digits, a hex string the sequence of its hex digits (0..15), with
\* NonHex for any other character.  Byte strings are sequences of 0..255.

\* Number.prototype.toString of a non-negative integer: its decimal digits
RECURSIVE numberToString(_)
numberToString(n) ==
  IF n < 10 THEN << n >> ELSE Append(numberToString(n \div 10), n % 10)

\* Buffer.from(str, 'utf-8') of a decimal string: digit d is the byte 48 + d
utf8(str) == [i \in 1..Len(str) |-> 48 + str[i]]

\* Buffer.toString('hex'): two hex digits per byte
toHex(bytes) ==
  [i \in 1..(2 * Len(bytes)) |->
     IF i % 2 = 1 THEN bytes[(i + 1) \div 2] \div 16
     ELSE bytes[i \div 2] % 16]

\* a character that is not a hex digit
NonHex == 16

\* Buffer.from(hex, 'hex'): one byte per pair of hex digits; decoding stops
\* at the first pair that is not two hex digits, and a trailing single
\* digit is dropped
RECURSIVE hexPairs(_, _)
hexPairs(hex, n) ==
  IF \/ 2 * n + 2 > Len(hex)
     \/ hex[2 * n + 1] >= NonHex
     \/ hex[2 * n + 2] >= NonHex
  THEN n
  ELSE hexPairs(hex, n + 1)

fromHex(hex) ==
  [i \in 1..hexPairs(hex, 0) |-> 16 * hex[2 * i - 1] + hex[2 * i]]

\* tweetnacl's lengths: a signature, a public key, a secret key, a seed
crypto_sign_BYTES == 64
crypto_sign_PUBLICKEYBYTES == 32
crypto_sign_SECRETKEYBYTES == 64
crypto_sign_SEEDBYTES == 32

\* Ed25519's base-point multiplication: the public key that belongs to a
\* seed, modelled as an injective map on byte strings
scalarBase(seed) == [i \in 1..Len(seed) |-> (seed[i] + 101) % 256]

\* nacl.sign.keyPair.fromSeed: the secret key is the seed followed by its
\* public key
naclSecretKey(seed) == seed \o scalarBase(seed)

\* nacl.sign.keyPair.fromSecretKey: the public key is the second half of
\* the secret key, copied without a check against the first half; throws
\* on a secret key of the wrong length
naclPublicKey(secretKey) ==
  SubSeq(secretKey, crypto_sign_SEEDBYTES + 1, crypto_sign_SECRETKEYBYTES)

\* SHA-512 as used inside the signature, modelled as a 32-byte checksum:
\* byte k adds up the bytes at positions k, k + 32, ... with odd weights,
\* and the length
RECURSIVE columnSum(_, _)
columnSum(msg, j) ==
  IF j > Len(msg) THEN 0
  ELSE msg[j] * (2 * ((j - 1) \div 32) + 1) + columnSum(msg, j + 32)

digest(msg) == [k \in 1..32 |-> (columnSum(msg, k) + Len(msg)) % 256]

\* nacl.sign.detached: Ed25519 as an ideal signature scheme over 64 bytes.
\* The first half is made with the scalar of the seed (it names the public
\* key that belongs to the seed), the second half is a hash over the public
\* half the secret key carries and the message.
naclSignDetached(msg, secretKey) ==
  scalarBase(SubSeq(secretKey, 1, crypto_sign_SEEDBYTES))
    \o digest(naclPublicKey(secretKey) \o msg)

\* nacl.sign.detached.verify throws on a signature or a public key of the
\* wrong length
naclVerifyThrows(sig, publicKey) ==
  \/ Len(sig) # crypto_sign_BYTES
  \/ Len(publicKey) # crypto_sign_PUBLICKEYBYTES

\* nacl.sign.detached.verify
naclVerify(msg, sig, publicKey) ==
  /\ SubSeq(sig, 1, crypto_sign_PUBLICKEYBYTES) = publicKey
  /\ SubSeq(sig, crypto_sign_PUBLICKEYBYTES + 1, crypto_sign_BYTES)
       = digest(publicKey \o msg)

\* isValidPrivateKey(privateKey)
isValidPrivateKey(privateKey) ==
  Len(fromHex(privateKey)) = crypto_sign_SECRETKEYBYTES

\* isValidPublicKey(publicKey)
isValidPublicKey(publicKey) ==
  Len(fromHex(publicKey)) = crypto_sign_PUBLICKEYBYTES

\* getPublicKey(privateKey)
getPublicKey(privateKey) == toHex(naclPublicKey(fromHex(privateKey)))

\* new Wallet(privateKey), once the key has passed the constructor's check
Wallet(privateKey) ==
  [privateKey |-> privateKey, publicKey |-> getPublicKey(privateKey)]

\* generateKeyPair().privateKey for the seed the random source returned
generateKeyPair(seed) == toHex(naclSecretKey(seed))

\* config.wallet: the wallet the client was constructed with
wallet == Wallet(generateKeyPair([i \in 1..crypto_sign_SEEDBYTES |-> 17]))

\* a wallet of another key pair
otherWallet == Wallet(generateKeyPair([i \in 1..crypto_sign_SEEDBYTES |-> 18]))

\* Wallet.sign(data)
walletSign(w, data) == toHex(naclSignDetached(data, fromHex(w.privateKey)))

\* verify(data, signature, publicKey) of the signing utilities: an
\* exception of nacl is caught and gives false
verify(data, signature, publicKey) ==
  IF naclVerifyThrows(fromHex(signature), fromHex(publicKey)) THEN FALSE
  ELSE naclVerify(data, fromHex(signature), fromHex(publicKey))

\* mutant: the client answers with a step-1 frame of its own
handshakeResponse_initiates(f) ==
  [step |-> 1,
   challenge_peer |-> f.challenge,
   challenge_proof |-> walletSign(wallet, utf8(numberToString(f.challenge))),
   publicKey |-> wallet.publicKey]

\* mutant: the challenge is signed as one raw byte, not as its string form
signChallenge_raw(challenge) == walletSign(wallet, << challenge >>)

\* signChallenge(challenge)
signChallenge(challenge) == walletSign(wallet, utf8(numberToString(challenge)))

\* signChallenge of each challenge a frame of Frames carries (a table, so
\* that a signature is computed once)
challengeProof == [c \in Challenges \cup {0} |-> signChallenge(c)]

\* handleHandshake: the step-2 response to a step-1 frame
handshakeResponse(f) ==
  [step |-> 2,
   challenge_peer |-> f.challenge,
   challenge_proof |-> challengeProof[f.challenge],
   publicKey |-> wallet.publicKey]

\* ----------------------------------------------------------- transactions
\* A Transaction object is the record of its seven fields; undef names the
\* fields whose value is undefined (such a field holds a filler value).
\* Counts and the timestamp are kept below 2^31; the encoders write them at
\* their full width. An amount is a bigint of any size: its sign and the
\* bytes of its magnitude, most significant first, without leading zeros.

FieldNames ==
  {"timestamp", "from", "to", "data", "signature", "type",
   "txs_replacements"}

\* TransactionType.Normal
Normal == 0

\* new Transaction() at the time now
Transaction(now) ==
  [timestamp |-> now, from |-> << >>, to |-> << >>, data |-> << >>,
   signature |-> << >>, type |-> Normal, txs_replacements |-> 1,
   undef |-> {}]

\* the slip addTo and addFrom push
Slip(publicKey, amount) ==
  [publicKey |-> publicKey, amount |-> amount, type |-> 0]

\* mutant: the slip is put in front of the list
addTo_unshift(t, publicKey, amount) ==
  [t EXCEPT !.to = << Slip(publicKey, amount) >> \o @]

\* addTo(publicKey, amount)
addTo(t, publicKey, amount) ==
  [t EXCEPT !.to = Append(@, Slip(publicKey, amount))]

\* addFrom(publicKey, amount)
addFrom(t, publicKey, amount) ==
  [t EXCEPT !.from = Append(@, Slip(publicKey, amount))]

\* setData(data): a string is stored as its utf-8 bytes, a byte array as it
\* is
setData(t, data) ==
  [t EXCEPT !.data = IF data.isString THEN utf8(data.value) ELSE data.value]

\* Buffer.writeUInt32BE / writeBigUInt64BE: n in width bytes, big-endian
RECURSIVE uintBE(_, _)
uintBE(n, width) ==
  IF width = 0 THEN << >>
  ELSE Append(uintBE(n \div 256, width - 1), n % 256)

\* writeBigUInt64BE throws a RangeError on a value outside 0 .. 2^64 - 1
\* (every number of the model is below 2^31)
outOfRange(n) == n < 0

\* the bytes of the magnitude of a natural number
RECURSIVE magnitude(_)
magnitude(n) ==
  IF n = 0 THEN << >> ELSE Append(magnitude(n \div 256), n % 256)

\* the bigint literal n
bigint(n) ==
  [neg |-> n < 0, mag |-> magnitude(IF n < 0 THEN 0 - n ELSE n)]

\* 2n ** 64n - 1n and 2n ** 64n
MaxUint64 == [neg |-> FALSE, mag |-> [i \in 1..8 |-> 255]]

TwoTo64 == [neg |-> FALSE, mag |-> << 1 >> \o [i \in 1..8 |-> 0]]

\* mutant: only a negative amount is refused
amountOutOfRange_negativeOnly(v) == v.neg

\* writeBigUInt64BE(value) throws a RangeError when value < 0n or
\* value > 2n ** 64n - 1n
amountOutOfRange(v) == v.neg \/ Len(v.mag) > 8

\* writeBigUInt64BE(value) on a value in range: the magnitude in 8 bytes
writeBigUInt64BE(v) == [i \in 1..(8 - Len(v.mag)) |-> 0] \o v.mag

\* serializeSlip(slip): the decoded public key, the amount in 8 bytes, the
\* type in 1 byte
serializeSlip(slip) ==
  fromHex(slip.publicKey) \o writeBigUInt64BE(slip.amount)
    \o << slip.type >>

RECURSIVE serializeSlips(_)
serializeSlips(slips) ==
  IF slips = << >> THEN << >>
  ELSE serializeSlip(Head(slips)) \o serializeSlips(Tail(slips))

\* serialize throws when the timestamp or an amount is out of range, or
\* when a field it reads is undefined
serializeThrows(t) ==
  \/ outOfRange(t.timestamp)
  \/ \E i \in 1..Len(t.from) : amountOutOfRange(t.from[i].amount)
  \/ \E i \in 1..Len(t.to) : amountOutOfRange(t.to[i].amount)
  \/ t.undef \cap {"timestamp", "from", "to", "data"} # {}

\* mutant: the signature is appended whenever it is asked for, as 64 zero
\* bytes when none is set
signaturePart_padded(t, includeSignature) ==
  IF ~includeSignature THEN << >>
  ELSE IF t.signature = << >> THEN [i \in 1..crypto_sign_BYTES |-> 0]
  ELSE fromHex(t.signature)

\* serialize: the signature part, present when it is asked for and the
\* signature is a non-empty string
signaturePart(t, includeSignature) ==
  IF includeSignature /\ t.signature # << >> THEN fromHex(t.signature)
  ELSE << >>

\* serialize(includeSignature)
serialize(t, includeSignature) ==
  uintBE(t.timestamp, 8)
    \o uintBE(Len(t.from), 4) \o serializeSlips(t.from)
    \o uintBE(Len(t.to), 4) \o serializeSlips(t.to)
    \o uintBE(Len(t.data), 4) \o t.data
    \o << t.type >>
    \o signaturePart(t, includeSignature)

\* mutant: the signature is made over the bytes that include the signature
\* field
signingPayload_withSignature(t) == serialize(t, TRUE)

\* sign(wallet): the bytes that are signed
signingPayload(t) == serialize(t, FALSE)

\* sign(wallet)
sign(t, w) == [t EXCEPT !.signature = walletSign(w, signingPayload(t))]

\* toJSON(): the seven fields
toJSON(t) ==
  [timestamp |-> t.timestamp, from |-> t.from, to |-> t.to,
   data |-> t.data, signature |-> t.signature, type |-> t.type,
   txs_replacements |-> t.txs_replacements, undef |-> t.undef]

\* a || b on numbers: b when a is undefined or 0
orDefault(isUndefined, a, b) == IF isUndefined \/ a = 0 THEN b ELSE a

\* mutant: fromJSON copies txs_replacements as it is
replacementsOf_copied(json) == json.txs_replacements

\* fromJSON: json.txs_replacements || 1
replacementsOf(json) ==
  orDefault("txs_replacements" \in json.undef, json.txs_replacements, 1)

\* Transaction.fromJSON(json): five fields are copied, defined or not; type
\* and txs_replacements get a default
fromJSON(json) ==
  [timestamp |-> json.timestamp, from |-> json.from, to |-> json.to,
   data |-> json.data, signature |-> json.signature,
   type |-> orDefault("type" \in json.undef, json.type, Normal),
   txs_replacements |-> replacementsOf(json),
   undef |-> json.undef \ {"type", "txs_replacements"}]

\* JSON.parse(JSON.stringify(bytes)) of a Uint8Array: an object whose
\* members are the indices "0", "1", ...; it has none of the members
\* fromJSON reads
jsonOfBytes(bytes) ==
  [timestamp |-> 0, from |-> << >>, to |-> << >>, data |-> << >>,
   signature |-> << >>, type |-> 0, txs_replacements |-> 0,
   undef |-> FieldNames]

\* sendTransaction: the data member of the frame it writes
transactionFrameData(t) == serialize(t, TRUE)

\* handleMessage, case 'transaction': the object handed to the
\* 'transaction' listeners for the frame sendTransaction wrote for t
routeTransaction(t) == fromJSON(jsonOfBytes(transactionFrameData(t)))

\* ----------------------------------------------------------------- wallets
NoWallet == [privateKey |-> << >>, publicKey |-> << >>]

ErrInvalidKey == "Invalid private key"

\* mutant: the constructor accepts a key of 64 bytes or more
keyAccepted_atLeast(privateKey) ==
  Len(fromHex(privateKey)) >= crypto_sign_SECRETKEYBYTES

\* the check of the Wallet constructor
keyAccepted(privateKey) == isValidPrivateKey(privateKey)

\* new Wallet(privateKey): the object, or the error thrown
newWallet(privateKey) ==
  IF keyAccepted(privateKey)
  THEN [threw |-> FALSE, error |-> ErrNone, wallet |-> Wallet(privateKey)]
  ELSE [threw |-> TRUE, error |-> ErrInvalidKey, wallet |-> NoWallet]

\* Wallet.fromPrivateKey(privateKey)
fromPrivateKey(privateKey) == newWallet(privateKey)

\* Wallet.toJSON()
walletToJSON(w) == [publicKey |-> w.publicKey, privateKey |-> w.privateKey]

\* mutant: fromJSON builds the wallet from the public key of the JSON form
walletFromJSON_publicKey(json) == newWallet(json.publicKey)

\* Wallet.fromJSON(json)
walletFromJSON(json) == newWallet(json.privateKey)

\* mutant: verify lets the exception of nacl through
verifyCatches_none == FALSE

\* verify: the call of nacl is inside try/catch
verifyCatches == TRUE

\* verify(data, signature, publicKey) as a call: whether it threw, and the
\* value it returned
verifyCall(data, signature, publicKey) ==
  [threw |-> naclVerifyThrows(fromHex(signature), fromHex(publicKey))
               /\ ~verifyCatches,
   value |-> verify(data, signature, publicKey)]

\* the call just made on a transaction or a wallet, and its outcome
NoTransaction == Transaction(0)

Op(kind, threw, error, key, w, result, value) ==
  [kind |-> kind, threw |-> threw, error |-> error, key |-> key,
   wallet |-> w, result |-> result, value |-> value, bytes |-> << >>]

Mutation(kind) ==
  Op(kind, FALSE, ErrNone, << >>, NoWallet, NoTransaction, FALSE)

\* a slot a new connect() call may take
Free(c) ==
  /\ readyState[c] \in {"NONE", "CLOSED"}
  /\ promise[c] # "pending"
  /\ c \notin SeqMembers(hsTimers)

FreeSlots == {c \in Calls : Free(c)}

NextSlot == CHOOSE c \in FreeSlots : \A d \in FreeSlots : c <= d

\* ------------------------------------------------------------------ Init

Init ==
  /\ endpointValid \in BOOLEAN
  /\ errorListener \in BOOLEAN
  /\ autoReconnect \in BOOLEAN
  /\ socket = Null
  /\ connected = FALSE
  /\ handshakeComplete = FALSE
  /\ reconnectAttempts = 0
  /\ readyState = [c \in Calls |-> "NONE"]
  /\ everOpen = [c \in Calls |-> FALSE]
  /\ promise = [c \in Calls |-> "none"]
  /\ hsTimers = << >>
  /\ reconnectTimers = << >>
  /\ crashed = FALSE
  /\ disconnectCalled = FALSE
  /\ autoSinceOpen = 0
  /\ gaveUp = 0
  /\ responded = [c \in Calls |-> FALSE]
  /\ unawaited = [c \in Calls |-> FALSE]
  /\ ev = Event("init", Null, 0, ErrNone, "none")
  /\ tx = NoTransaction
  /\ held = NoWallet
  /\ op = Mutation("new Transaction")

\* --------------------------------------------------------------- connect

\* the body of connect() run for slot c
connectBody(c) ==
  IF endpointValid
    THEN /\ socket' = c
         /\ readyState' = [readyState EXCEPT ![c] = "CONNECTING"]
         /\ everOpen' = [everOpen EXCEPT ![c] = FALSE]
         /\ promise' = [promise EXCEPT ![c] = "pending"]
         /\ hsTimers' = Append(hsTimers, c)
    ELSE \* new WebSocket throws: the catch block rejects
         /\ promise' = [promise EXCEPT ![c] = "rejected: invalid endpoint"]
         /\ UNCHANGED << socket, readyState, everOpen, hsTimers >>

\* connect() called by the application
connectCall ==
  /\ ~crashed
  /\ FreeSlots # {}
  /\ connectBody(NextSlot)
  /\ ev' = Event("connect", NextSlot, 0, ErrNone, "none")
  /\ UNCHANGED << config, codec, autoReconnect, connected, handshakeComplete,
                  reconnectAttempts, reconnectTimers, crashed,
                  disconnectCalled >>

connect == connectCall /\ UNCHANGED hist

\* the reconnect timer set by a 'close' handler fires: this.connect()
reconnectTimerBody ==
  /\ ~crashed
  /\ reconnectTimers # << >>
  /\ FreeSlots # {}
  /\ reconnectTimers' = Tail(reconnectTimers)
  /\ connectBody(NextSlot)
  /\ ev' = Event("reconnectTimer", NextSlot, Head(reconnectTimers), ErrNone, "none")
  /\ UNCHANGED << config, codec, autoReconnect, connected, handshakeComplete,
                  reconnectAttempts, crashed, disconnectCalled >>

reconnectTimer == reconnectTimerBody /\ UNCHANGED hist

\* ------------------------------------------------------ socket callbacks

\* socket.on('open')
onOpenBody(c) ==
  /\ ~crashed
  /\ readyState[c] = "CONNECTING"
  /\ readyState' = [readyState EXCEPT ![c] = "OPEN"]
  /\ everOpen' = [everOpen EXCEPT ![c] = TRUE]
  /\ connected' = TRUE
  /\ reconnectAttempts' = attemptsOnOpen(reconnectAttempts)
  /\ ev' = Event("open", c, 0, ErrNone, "none")
  /\ UNCHANGED << config, codec, autoReconnect, socket, handshakeComplete,
                  promise, hsTimers, reconnectTimers, crashed,
                  disconnectCalled >>

onOpen(c) == onOpenBody(c) /\ UNCHANGED hist

\* handleHandshake answers frame f: it is a step-1 handshake frame
respondsTo(f) ==
  f.parses /\ f.request = "handshake" /\ f.hasData /\ handshakeInit(f.step)

\* handleHandshake completes the handshake on frame f
completes(f) ==
  /\ f.parses /\ f.request = "handshake" /\ f.hasData
  /\ ~handshakeInit(f.step)
  /\ handshakeDone(f.step)

\* handleMessage throws inside its try block on frame f: JSON.parse fails,
\* the handler reads a member of a missing payload, or sendMessage throws
throwsOn(f) ==
  \/ ~f.parses
  \/ f.request \in {"handshake", "transaction"} /\ ~f.hasData
  \/ respondsTo(f) /\ ~canSend(socket, readyState)

\* socket.on('message') -> handleMessage -> handleHandshake
onMessageBody(c, f) ==
  /\ ~crashed
  /\ readyState[c] = "OPEN" \/ (readyState[c] = "CLOSING" /\ everOpen[c])
  /\ LET sends == respondsTo(f) /\ canSend(socket, readyState)
         emits == f.parses /\ (f.request = "transaction" => f.hasData)
     IN /\ handshakeComplete' = (completes(f) \/ handshakeComplete)
        /\ promise' = IF completes(f) THEN emitHandshakeComplete(promise)
                      ELSE promise
        \* the catch block emits 'error'; with no listener the emit throws
        /\ crashed' = (throwsOn(f) /\ ~errorListener)
        /\ ev' = EventFull("message", c,
                   IF f.parses /\ f.request = "handshake" /\ f.hasData
                     THEN f.step ELSE -2,
                   IF respondsTo(f) /\ ~sends THEN ErrSocketNotConnected
                   ELSE IF throwsOn(f) THEN ErrMalformed ELSE ErrNone,
                   IF sends THEN "handshake" ELSE "none",
                   IF sends THEN handshakeResponse(f) ELSE NoData,
                   f.request,
                   f.challenge,
                   IF emits THEN dispatch(f.request) ELSE "none")
  /\ UNCHANGED << config, codec, autoReconnect, socket, connected, reconnectAttempts,
                  readyState, everOpen, hsTimers, reconnectTimers,
                  disconnectCalled >>

onMessage(c, f) == onMessageBody(c, f) /\ UNCHANGED hist

\* socket.on('error')
onError(c) ==
  /\ ~crashed
  /\ readyState[c] \in {"CONNECTING", "OPEN", "CLOSING"}
  /\ IF errorListener
       THEN /\ promise' = IF errorRejects(connected)
                            THEN reject(promise, c, "rejected: socket error")
                            ELSE promise
            /\ crashed' = FALSE
       ELSE \* emit('error') throws before reject is reached
            /\ promise' = promise
            /\ crashed' = TRUE
  /\ ev' = Event("error", c, 0, ErrNone, "none")
  /\ UNCHANGED << config, codec, autoReconnect, socket, connected, handshakeComplete,
                  reconnectAttempts, readyState, everOpen, hsTimers,
                  reconnectTimers, disconnectCalled, hist >>

\* socket.on('close')
onCloseBody(c) ==
  /\ ~crashed
  /\ readyState[c] \in {"CONNECTING", "OPEN", "CLOSING"}
  /\ readyState' = [readyState EXCEPT ![c] = "CLOSED"]
  /\ connected' = flagsOnClose(connected, handshakeComplete).connected
  /\ handshakeComplete' =
       flagsOnClose(connected, handshakeComplete).handshakeComplete
  /\ IF shouldReconnect(autoReconnect, reconnectAttempts)
       THEN /\ Len(reconnectTimers) < MaxTimers
            /\ reconnectAttempts' = reconnectAttempts + 1
            /\ reconnectTimers' = scheduleReconnect(reconnectTimers)
       ELSE UNCHANGED << reconnectAttempts, reconnectTimers >>
  /\ ev' = Event("close", c, 0, ErrNone, "none")
  /\ UNCHANGED << config, codec, autoReconnect, socket, everOpen, promise, hsTimers,
                  crashed, disconnectCalled >>

onClose(c) == onCloseBody(c) /\ UNCHANGED hist

\* the 30 s timer of the oldest call whose timer is pending fires
handshakeTimer ==
  /\ ~crashed
  /\ hsTimers # << >>
  /\ LET c == Head(hsTimers)
     IN /\ promise' = IF timeoutRejects(handshakeComplete)
                        THEN reject(promise, c, "rejected: Handshake timeout")
                        ELSE promise
        /\ ev' = Event("handshakeTimer", c, handshakeTimeout, ErrNone, "none")
  /\ hsTimers' = Tail(hsTimers)
  /\ UNCHANGED << config, codec, autoReconnect, socket, connected, handshakeComplete,
                  reconnectAttempts, readyState, everOpen, reconnectTimers,
                  crashed, disconnectCalled, hist >>

\* ------------------------------------------------------------ public API

\* disconnect()
disconnect ==
  /\ ~crashed
  /\ LET r == disconnectFn(clientState)
     IN /\ autoReconnect' = r.autoReconnect
        /\ socket' = r.socket
        /\ readyState' = r.readyState
  /\ disconnectCalled' = TRUE
  /\ ev' = Event("disconnect", socket, 0, ErrNone, "none")
  /\ UNCHANGED << config, codec, connected, handshakeComplete, reconnectAttempts,
                  everOpen, promise, hsTimers, reconnectTimers, crashed,
                  hist >>

\* sendTransaction(tx); serializable: tx.serialize() does not throw
sendTransaction(serializable) ==
  /\ ~crashed
  /\ ev' = Event("sendTransaction", socket, 0,
                 IF notReady(connected, handshakeComplete) THEN ErrNotConnected
                 ELSE IF ~serializable THEN ErrSerialize
                 ELSE IF ~canSend(socket, readyState) THEN ErrSocketNotConnected
                 ELSE ErrNone,
                 IF ~notReady(connected, handshakeComplete) /\ serializable
                      /\ canSend(socket, readyState)
                   THEN "transaction" ELSE "none")
  /\ UNCHANGED << config, codec, progVars, disconnectCalled, hist >>

\* sendCustomMessage(type, data): the frame carries the caller's type as
\* its request tag
sendCustomMessage(type) ==
  /\ ~crashed
  /\ ev' = Event("sendCustomMessage", socket, 0,
                 IF canSend(socket, readyState) THEN ErrNone
                 ELSE ErrSocketNotConnected,
                 IF canSend(socket, readyState) THEN type ELSE "none")
  /\ UNCHANGED << config, codec, progVars, disconnectCalled, hist >>

\* ------------------------------------------------------------------ Next

Next ==
  \/ connect
  \/ reconnectTimer
  \/ \E c \in Calls : onOpen(c)
  \/ \E c \in Calls : \E f \in Frames : onMessage(c, f)
  \/ \E c \in Calls : onError(c)
  \/ \E c \in Calls : onClose(c)
  \/ handshakeTimer
  \/ disconnect
  \/ \E s \in BOOLEAN : sendTransaction(s)
  \/ \E t \in CustomTypes : sendCustomMessage(t)

Spec == Init /\ [][Next]_vars

\* The same program with one history variable kept.  Spec leaves the
\* history variables at their initial values; each of the specifications
\* below counts the one its claims need.

\* SpecRetry counts autoSinceOpen: the reconnect timers that fired since the
\* last 'open'.
reconnectTimerCounted ==
  /\ reconnectTimerBody
  /\ autoSinceOpen' = autoSinceOpen + 1
  /\ UNCHANGED << gaveUp, responded, unawaited >>

onOpenCounted(c) ==
  /\ onOpenBody(c)
  /\ autoSinceOpen' = 0
  /\ UNCHANGED << gaveUp, responded, unawaited >>

NextRetry ==
  \/ connect
  \/ reconnectTimerCounted
  \/ \E c \in Calls : onOpenCounted(c)
  \/ \E c \in Calls : \E f \in Frames : onMessage(c, f)
  \/ \E c \in Calls : onError(c)
  \/ \E c \in Calls : onClose(c)
  \/ handshakeTimer
  \/ disconnect
  \/ \E s \in BOOLEAN : sendTransaction(s)
  \/ \E t \in CustomTypes : sendCustomMessage(t)

SpecRetry == Init /\ [][NextRetry]_vars

\* SpecGiveUp counts gaveUp: set by a 'close' that finds the attempt counter
\* at the maximum, raised by a connect() of the application after it, and
\* cleared by an automatic connect() and by any other 'close'.
connectGiveUp ==
  /\ connectCall
  /\ gaveUp' = IF gaveUp >= 1 /\ endpointValid THEN 2 ELSE gaveUp
  /\ UNCHANGED << autoSinceOpen, responded, unawaited >>

reconnectTimerGiveUp ==
  /\ reconnectTimerBody
  /\ gaveUp' = 0
  /\ UNCHANGED << autoSinceOpen, responded, unawaited >>

onCloseGiveUp(c) ==
  /\ onCloseBody(c)
  /\ gaveUp' = IF autoReconnect /\ reconnectAttempts >= maxReconnectAttempts
                 THEN 1 ELSE 0
  /\ UNCHANGED << autoSinceOpen, responded, unawaited >>

NextGiveUp ==
  \/ connectGiveUp
  \/ reconnectTimerGiveUp
  \/ \E c \in Calls : onOpen(c)
  \/ \E c \in Calls : \E f \in Frames : onMessage(c, f)
  \/ \E c \in Calls : onError(c)
  \/ \E c \in Calls : onCloseGiveUp(c)
  \/ handshakeTimer
  \/ disconnect
  \/ \E s \in BOOLEAN : sendTransaction(s)
  \/ \E t \in CustomTypes : sendCustomMessage(t)

SpecGiveUp == Init /\ [][NextGiveUp]_vars

\* SpecHandshake counts responded: per socket, a step-1 frame received on
\* it was answered with the step-2 response; cleared when the socket closes.
onMessageHandshake(c, f) ==
  /\ onMessageBody(c, f)
  /\ responded' =
       [responded EXCEPT
          ![c] = @ \/ (respondsTo(f) /\ canSend(socket, readyState))]
  /\ UNCHANGED << autoSinceOpen, gaveUp, unawaited >>

onCloseHandshake(c) ==
  /\ onCloseBody(c)
  /\ responded' = [responded EXCEPT ![c] = FALSE]
  /\ UNCHANGED << autoSinceOpen, gaveUp, unawaited >>

NextHandshake ==
  \/ connect
  \/ reconnectTimer
  \/ \E c \in Calls : onOpen(c)
  \/ \E c \in Calls : \E f \in Frames : onMessageHandshake(c, f)
  \/ \E c \in Calls : onError(c)
  \/ \E c \in Calls : onCloseHandshake(c)
  \/ handshakeTimer
  \/ disconnect
  \/ \E s \in BOOLEAN : sendTransaction(s)
  \/ \E t \in CustomTypes : sendCustomMessage(t)

SpecHandshake == Init /\ [][NextHandshake]_vars

\* SpecReconnect counts unawaited: a reconnect timer runs
\* setTimeout(() => this.connect(), ...), which drops the promise connect()
\* returns; the application keeps the promise of a connect() it calls.
connectAwaited ==
  /\ connectCall
  /\ unawaited' = [unawaited EXCEPT ![NextSlot] = FALSE]
  /\ UNCHANGED << autoSinceOpen, gaveUp, responded >>

reconnectTimerUnawaited ==
  /\ reconnectTimerBody
  /\ unawaited' = [unawaited EXCEPT ![NextSlot] = TRUE]
  /\ UNCHANGED << autoSinceOpen, gaveUp, responded >>

NextReconnect ==
  \/ connectAwaited
  \/ reconnectTimerUnawaited
  \/ \E c \in Calls : onOpen(c)
  \/ \E c \in Calls : \E f \in Frames : onMessage(c, f)
  \/ \E c \in Calls : onError(c)
  \/ \E c \in Calls : onClose(c)
  \/ handshakeTimer
  \/ disconnect
  \/ \E s \in BOOLEAN : sendTransaction(s)
  \/ \E t \in CustomTypes : sendCustomMessage(t)

\* a client made with autoReconnect on and a valid endpoint, to which the
\* application has added an 'error' listener
InitReconnect ==
  /\ Init
  /\ endpointValid /\ errorListener /\ autoReconnect

SpecReconnect == InitReconnect /\ [][NextReconnect]_vars

\* ------------------------------------------- transaction and wallet calls
\* The application makes wallets and verifies signatures (SpecWallet), or
\* builds and signs a transaction with the wallet it holds (SpecTx); the
\* client takes no step.

\* slips of one list of a transaction
MaxSlips == 2

Seed(b) == [i \in 1..crypto_sign_SEEDBYTES |-> b]

\* 'invalid-key' and 'recipient': a, d, e and c are hex digits, the other
\* characters are not
InvalidKeyString ==
  << NonHex, NonHex, NonHex, 10, NonHex, NonHex, 13, NonHex, NonHex, 14,
     NonHex >>

RecipientString ==
  << NonHex, 14, 12, NonHex, NonHex, NonHex, 14, NonHex, NonHex >>

\* a secret key whose second half is not the public key of its first half
ForgedKey == toHex(Seed(17) \o scalarBase(Seed(18)))

\* private keys that pass the constructor's check
ValidKeys ==
  {generateKeyPair(Seed(17)), generateKeyPair(Seed(18)), ForgedKey,
   Append(generateKeyPair(Seed(17)), NonHex)}

\* private keys of the wallets that sign transactions
SigningKeys == {generateKeyPair(Seed(17)), ForgedKey}

\* private keys the application passes to the Wallet constructors
Keys ==
  ValidKeys
    \cup {<< >>, InvalidKeyString,
          toHex([i \in 1..(crypto_sign_SECRETKEYBYTES - 1) |-> 17]),
          toHex([i \in 1..(crypto_sign_SECRETKEYBYTES + 1) |-> 17]),
          toHex(Seed(17))}

WalletEntryPoints == {"new Wallet", "fromPrivateKey", "fromJSON"}

\* public keys of slips
SlipKeys == {wallet.publicKey, RecipientString}

Amounts == {bigint(1000), bigint(-1)}

DataInputs ==
  {[isString |-> FALSE, value |-> << 0, 255 >>],
   [isString |-> TRUE, value |-> << 1, 2 >>]}

\* values the application assigns to type and txs_replacements
FieldInputs ==
  {[type |-> 0, txs_replacements |-> 0],
   [type |-> 4, txs_replacements |-> 1],
   [type |-> 4, txs_replacements |-> 7]}

Timestamps == {1700}

\* messages the application signs and verifies
Messages == {<< >>, << 49, 50 >>}

\* signatures and public keys the application passes to verify, besides
\* those made with the wallet it holds
OtherSignatures ==
  {<< >>, InvalidKeyString, toHex(Seed(17)),
   walletSign(otherWallet, << 49, 50 >>)}

OtherPublicKeys == {<< >>, RecipientString, otherWallet.publicKey}

clientIdle ==
  UNCHANGED << config, progVars, disconnectCalled, hist, ev >>

AddTo(publicKey, amount) ==
  /\ Len(tx.from) + Len(tx.to) < MaxSlips
  /\ tx' = addTo(tx, publicKey, amount)
  /\ op' = Mutation("addTo")
  /\ UNCHANGED held
  /\ clientIdle

AddFrom(publicKey, amount) ==
  /\ Len(tx.from) + Len(tx.to) < MaxSlips
  /\ tx' = addFrom(tx, publicKey, amount)
  /\ op' = Mutation("addFrom")
  /\ UNCHANGED held
  /\ clientIdle

SetData(data) ==
  /\ tx' = setData(tx, data)
  /\ op' = Mutation("setData")
  /\ UNCHANGED held
  /\ clientIdle

\* tx.type = ..., tx.txs_replacements = ...: the fields are public
SetFields(fields) ==
  /\ tx' = [tx EXCEPT !.type = fields.type,
                      !.txs_replacements = fields.txs_replacements]
  /\ op' = Mutation("setFields")
  /\ UNCHANGED held
  /\ clientIdle

\* tx.sign(held); op.key keeps the signature the transaction had before
Sign ==
  /\ held # NoWallet
  /\ IF serializeThrows(tx)
     THEN /\ op' = Op("sign", TRUE, "RangeError", tx.signature, held,
                      NoTransaction, FALSE)
          /\ UNCHANGED tx
     ELSE /\ tx' = sign(tx, held)
          /\ op' = Op("sign", FALSE, ErrNone, tx.signature, held,
                      NoTransaction, FALSE)
  /\ UNCHANGED held
  /\ clientIdle

\* tx.serialize(includeSignature)
Serialize(includeSignature) ==
  /\ op' = IF serializeThrows(tx)
           THEN Op("serialize", TRUE, "RangeError", << >>, NoWallet,
                   NoTransaction, includeSignature)
           ELSE [Op("serialize", FALSE, ErrNone, << >>, NoWallet,
                    NoTransaction, includeSignature)
                   EXCEPT !.bytes = serialize(tx, includeSignature)]
  /\ UNCHANGED << tx, held >>
  /\ clientIdle

\* Transaction.fromJSON(tx.toJSON())
JsonRoundTrip ==
  /\ op' = Op("fromJSON", FALSE, ErrNone, << >>, NoWallet,
              fromJSON(toJSON(tx)), FALSE)
  /\ UNCHANGED << tx, held >>
  /\ clientIdle

\* sendTransaction(tx) on a ready client, and the peer's handleMessage of
\* the frame
Transmit ==
  /\ ~serializeThrows(tx)
  /\ op' = Op("transmit", FALSE, ErrNone, << >>, NoWallet,
              routeTransaction(tx), FALSE)
  /\ UNCHANGED << tx, held >>
  /\ clientIdle

\* new Wallet(k), Wallet.fromPrivateKey(k), Wallet.fromJSON({privateKey: k})
NewWallet(entry, k) ==
  /\ LET outcome == CASE entry = "new Wallet" -> newWallet(k)
                      [] entry = "fromPrivateKey" -> fromPrivateKey(k)
                      [] entry = "fromJSON" ->
                           walletFromJSON([privateKey |-> k, publicKey |-> << >>])
     IN /\ op' = Op(entry, outcome.threw, outcome.error, k, outcome.wallet,
                    NoTransaction, FALSE)
        /\ held' = IF outcome.threw THEN held ELSE outcome.wallet
  /\ UNCHANGED tx
  /\ clientIdle

\* Wallet.fromJSON(held.toJSON())
WalletRoundTrip ==
  /\ held # NoWallet
  /\ LET outcome == walletFromJSON(walletToJSON(held))
     IN op' = Op("walletRoundTrip", outcome.threw, outcome.error,
                 held.privateKey, outcome.wallet, NoTransaction, FALSE)
  /\ UNCHANGED << tx, held >>
  /\ clientIdle

\* verify(data, signature, publicKey)
Verify(data, signature, publicKey) ==
  /\ LET outcome == verifyCall(data, signature, publicKey)
     IN op' = Op("verify", outcome.threw, ErrNone, signature,
                 [privateKey |-> << >>, publicKey |-> publicKey],
                 NoTransaction, outcome.value)
  /\ UNCHANGED << tx, held >>
  /\ clientIdle

\* the client before connect(), with all options on
InitIdle ==
  /\ endpointValid = TRUE
  /\ errorListener = TRUE
  /\ autoReconnect = TRUE
  /\ socket = Null
  /\ connected = FALSE
  /\ handshakeComplete = FALSE
  /\ reconnectAttempts = 0
  /\ readyState = [c \in Calls |-> "NONE"]
  /\ everOpen = [c \in Calls |-> FALSE]
  /\ promise = [c \in Calls |-> "none"]
  /\ hsTimers = << >>
  /\ reconnectTimers = << >>
  /\ crashed = FALSE
  /\ disconnectCalled = FALSE
  /\ autoSinceOpen = 0
  /\ gaveUp = 0
  /\ responded = [c \in Calls |-> FALSE]
  /\ unawaited = [c \in Calls |-> FALSE]
  /\ ev = Event("init", Null, 0, ErrNone, "none")

\* the signatures of Messages made with the wallet held
HeldSignatures ==
  IF held = NoWallet THEN {} ELSE {walletSign(held, m) : m \in Messages}

InitWallet ==
  /\ InitIdle
  /\ tx = NoTransaction
  /\ held = NoWallet
  /\ op = Mutation("new Transaction")

NextWallet ==
  \/ \E e \in WalletEntryPoints : \E k \in Keys : NewWallet(e, k)
  \/ WalletRoundTrip
  \/ \E m \in Messages :
       \E s \in OtherSignatures \cup HeldSignatures :
         \E k \in OtherPublicKeys \cup {held.publicKey} : Verify(m, s, k)

SpecWallet == InitWallet /\ [][NextWallet]_vars

InitTx ==
  /\ InitIdle
  /\ tx \in {Transaction(now) : now \in Timestamps}
  /\ held \in {newWallet(k).wallet : k \in SigningKeys}
  /\ op = Mutation("new Transaction")

NextTx ==
  \/ \E k \in SlipKeys : \E a \in Amounts : AddTo(k, a)
  \/ \E k \in SlipKeys : \E a \in Amounts : AddFrom(k, a)
  \/ \E d \in DataInputs : SetData(d)
  \/ \E f \in FieldInputs : SetFields(f)
  \/ Sign
  \/ \E i \in BOOLEAN : Serialize(i)
  \/ JsonRoundTrip
  \/ Transmit

SpecTx == InitTx /\ [][NextTx]_vars

\* 2n ** 32n
TwoTo32 == [neg |-> FALSE, mag |-> << 1, 0, 0, 0, 0 >>]

\* amounts at and beyond the ends of the unsigned 64-bit range
WideAmounts ==
  {bigint(0), bigint(1000), TwoTo32, MaxUint64, TwoTo64, bigint(-1)}

InitAmount ==
  /\ InitIdle
  /\ tx \in {Transaction(now) : now \in Timestamps}
  /\ held = NoWallet
  /\ op = Mutation("new Transaction")

NextAmount ==
  \/ \E k \in SlipKeys : \E a \in WideAmounts : AddTo(k, a)
  \/ \E k \in SlipKeys : \E a \in WideAmounts : AddFrom(k, a)
  \/ \E i \in BOOLEAN : Serialize(i)

SpecAmount == InitAmount /\ [][NextAmount]_vars

TypeOK ==
  /\ socket \in Calls \cup {Null}
  /\ readyState \in [Calls -> ReadyStates]
  /\ reconnectAttempts \in Nat
  /\ Len(reconnectTimers) <= MaxTimers
  /\ gaveUp \in 0..2
  /\ responded \in [Calls -> BOOLEAN]
  /\ unawaited \in [Calls -> BOOLEAN]
  /\ ev.data.step \in {0, 2}
  /\ Len(ev.data.challenge_proof) \in {0, 2 * crypto_sign_BYTES}

\* ================================================================ claims

HandshakeCompleteFrame == ev.kind = "message" /\ ev.arg >= 3

\* C1: a connect() promise is resolved only by the step that processes a
\* handshake frame with step >= 3, and that step leaves no connect() call
\* pending.
C1_ResolvedOnlyByHandshake ==
  [][/\ \A c \in Calls :
          (promise'[c] = "resolved" /\ promise[c] # "resolved")
            => (promise[c] = "pending" /\ ev'.kind = "message" /\ ev'.arg >= 3)
     /\ (ev'.kind = "message" /\ ev'.arg >= 3)
          => \A c \in Calls : promise'[c] # "pending"]_vars

\* C1 witness: a step >= 3 frame was processed while two calls were inside
\* their 30 s window, and both are resolved.
C1_Witness ==
  /\ HandshakeCompleteFrame
  /\ Len(hsTimers) = 2
  /\ \A c \in Calls : promise[c] = "resolved"

\* C2: when the 30 s timer of a connect() call fires while the handshake is
\* not complete and the call is still pending, the call is rejected with the
\* handshake-timeout error, whatever the state of its socket.
C2_TimeoutRejects ==
  [][(ev'.kind = "handshakeTimer" /\ ~handshakeComplete
        /\ promise[ev'.call] = "pending")
       => /\ promise'[ev'.call] = "rejected: Handshake timeout"
          /\ ev'.arg = 30000]_vars

\* C2 witness: the timer rejected a call whose socket is open (the server
\* never answered).
C2_Witness ==
  /\ ev.kind = "handshakeTimer"
  /\ promise[ev.call] = "rejected: Handshake timeout"
  /\ readyState[ev.call] = "OPEN"
  /\ connected

\* C3 (the claim as stated): a socket error before the socket's first open
\* rejects the pending connect() call of that socket in the same step.
C3_ErrorBeforeOpenRejects ==
  [][(ev'.kind = "error" /\ ~everOpen[ev'.call]
        /\ promise[ev'.call] = "pending")
       => promise'[ev'.call] = "rejected: socket error"]_vars

\* C4 (the claim as stated): once disconnect() has been called no reconnect
\* timer runs connect().
C4_NoReconnectAfterDisconnect ==
  [][disconnectCalled => ev'.kind # "reconnectTimer"]_vars

\* C5: disconnect() is idempotent: in every reachable state a second call
\* right after a first one changes no field and closes no socket, a call
\* closes at most one socket, and right after a disconnect() step another
\* call is a no-op that raises nothing.
C5_DisconnectIdempotent ==
  LET once == disconnectFn(clientState)
      twice == disconnectFn(once)
  IN /\ twice.autoReconnect = once.autoReconnect
     /\ twice.socket = once.socket
     /\ twice.readyState = once.readyState
     /\ twice.closed = {}
     /\ Cardinality(once.closed) <= 1
     /\ ev.kind = "disconnect"
          => /\ ev.error = ErrNone
             /\ ~crashed
             /\ once.autoReconnect = autoReconnect
             /\ once.socket = socket
             /\ once.readyState = readyState
             /\ once.closed = {}

\* C5 witness: disconnect() has just closed a socket that was not closed.
C5_Witness ==
  /\ ev.kind = "disconnect"
  /\ ev.call # Null
  /\ readyState[ev.call] = "CLOSING"

\* C6: a step taken while the client has no socket or its socket is not
\* OPEN writes no frame; sendCustomMessage and the handshake response then
\* fail with the not-connected error and sendTransaction fails, whatever
\* handshakeComplete is, and the two send calls change nothing.
C6_SendNeedsOpenSocket ==
  [][(socket = Null \/ readyState[socket] # "OPEN")
       => /\ ev'.wrote = "none"
          /\ ev'.kind = "sendCustomMessage"
               => (ev'.error = ErrSocketNotConnected /\ UNCHANGED progVars)
          /\ ev'.kind = "sendTransaction"
               => (ev'.error # ErrNone /\ UNCHANGED progVars)
          /\ (ev'.kind = "message" /\ ev'.arg = 1)
               => ev'.error = ErrSocketNotConnected]_vars

\* C6 witness: a send failed on a client whose handshake is complete.
C6_Witness ==
  /\ ev.kind = "sendCustomMessage"
  /\ ev.error = ErrSocketNotConnected
  /\ handshakeComplete
  /\ connected

\* C7: sendTransaction writes a transaction frame only if the client is
\* ready and its socket is OPEN; when the client is not ready it fails with
\* the not-connected error, writes nothing and changes nothing.
C7_SendTransactionOnlyWhenReady ==
  [][ev'.kind = "sendTransaction"
       => /\ ev'.wrote # "none"
               => /\ connected /\ handshakeComplete
                  /\ socket # Null /\ readyState[socket] = "OPEN"
                  /\ ev'.wrote = "transaction"
          /\ ~(connected /\ handshakeComplete)
               => /\ ev'.error = ErrNotConnected
                  /\ ev'.wrote = "none"
                  /\ UNCHANGED progVars]_vars

\* C7 witness: a transaction frame was written.
C7_Witness ==
  /\ ev.kind = "sendTransaction"
  /\ ev.wrote = "transaction"
  /\ ev.error = ErrNone

\* C8: a reconnect is scheduled, and the attempt counter incremented, only
\* by a socket 'close' on a client on which disconnect() was never called; a
\* 'close' after disconnect() leaves timers and counter as they were.
C8_ReconnectOnlyOnUnexpectedClose ==
  [][/\ (Len(reconnectTimers') > Len(reconnectTimers)
           \/ reconnectAttempts' > reconnectAttempts)
          => (ev'.kind = "close" /\ ~disconnectCalled)
     /\ (ev'.kind = "close" /\ disconnectCalled)
          => UNCHANGED << reconnectTimers, reconnectAttempts >>]_vars

\* C8 witness: a socket closed after disconnect() on a client that had been
\* reconnecting.
C8_Witness ==
  /\ ev.kind = "close"
  /\ disconnectCalled
  /\ reconnectAttempts > 0
  /\ reconnectTimers = << >>

\* C9 (the claim as stated): the attempt counter stays within
\* 0..maxReconnectAttempts, at most maxReconnectAttempts reconnect timers
\* run connect() without an 'open' in between, and each of them fires a
\* timer set with the reconnect delay.
C9_RetriesBounded ==
  /\ reconnectAttempts \in 0..maxReconnectAttempts
  /\ autoSinceOpen <= maxReconnectAttempts
  /\ ev.kind = "reconnectTimer" => ev.arg = reconnectDelay

\* C10: on a client configured with autoReconnect and never disconnected,
\* a socket 'close' below the maximum sets exactly one reconnect timer, with
\* the configured delay, and counts one attempt.
C10_OneReconnectPerClose ==
  [][(ev'.kind = "close" /\ autoReconnect /\ ~disconnectCalled
        /\ reconnectAttempts < maxReconnectAttempts)
       => /\ reconnectTimers' = Append(reconnectTimers, reconnectDelay)
          /\ reconnectAttempts' = reconnectAttempts + 1]_vars

\* C10 witness: the close that used the last attempt of the budget set a
\* timer.
C10_Witness ==
  /\ ev.kind = "close"
  /\ ~disconnectCalled
  /\ reconnectAttempts = maxReconnectAttempts
  /\ reconnectTimers = << reconnectDelay >>

\* C11: every 'open' sets the attempt counter to 0 and nothing else lowers
\* it; a 'close' that directly follows an 'open' on a client that reconnects
\* uses the first attempt of a full budget.
C11_OpenResetsAttempts ==
  [][/\ ev'.kind = "open" => reconnectAttempts' = 0
     /\ reconnectAttempts' < reconnectAttempts => ev'.kind = "open"
     /\ (ev.kind = "open" /\ ev'.kind = "close" /\ autoReconnect)
          => /\ reconnectAttempts' = 1
             /\ maxReconnectAttempts - reconnectAttempts
                  = maxReconnectAttempts]_vars

\* C11 witness: a socket opened while the reconnect timer set by the close
\* of another socket, one that never opened, is pending: the counter was
\* positive and is 0 again.
C11_Witness ==
  /\ ev.kind = "open"
  /\ reconnectAttempts = 0
  /\ reconnectTimers = << reconnectDelay >>
  /\ \A c \in Calls \ {ev.call} : readyState[c] = "CLOSED" /\ ~everOpen[c]

\* C12: a 'close' that finds the attempt counter at the maximum sets no
\* reconnect timer, leaves the counter and every promise as they are and
\* raises nothing; a connect() of the application in that state creates a
\* new socket, which becomes the client's socket, and a pending call as any
\* connect() does.
C12_GiveUpSilentlyStayUsable ==
  [][/\ (ev'.kind = "close" /\ reconnectAttempts >= maxReconnectAttempts)
          => /\ UNCHANGED << reconnectTimers, reconnectAttempts, promise >>
             /\ ev'.error = ErrNone
             /\ ~crashed'
     /\ (ev'.kind = "connect" /\ gaveUp >= 1 /\ endpointValid)
          => /\ socket' = ev'.call
             /\ readyState'[ev'.call] = "CONNECTING"
             /\ promise'[ev'.call] = "pending"
             /\ gaveUp' = 2]_vars

\* C12 witness: after the client gave up, the application called connect();
\* the socket of that call opened, completed the handshake and the client is
\* ready, with no reconnect timer involved.
C12_Witness ==
  /\ gaveUp = 2
  /\ ev.kind = "message" /\ ev.arg >= 3
  /\ socket # Null /\ ev.call = socket
  /\ readyState[socket] = "OPEN"
  /\ isReady
  /\ promise[socket] = "resolved"
  /\ reconnectAttempts = 0
  /\ reconnectTimers = << >>

\* C13: whenever a step-1 handshake frame with challenge_mine = c is
\* processed while the client's socket is open, the client writes one
\* handshake frame with step 2 and challenge_peer = c whose challenge_proof
\* verifies, under the wallet's public key, for the bytes of the string form
\* of c, and for no other challenge and under no other key.
C13_ResponseProvesChallenge ==
  (ev.kind = "message" /\ ev.arg = 1 /\ canSend(socket, readyState))
    => /\ ev.error = ErrNone
       /\ ev.wrote = "handshake"
       /\ ev.data.step = 2
       /\ ev.data.challenge_peer = ev.challenge
       /\ ev.data.publicKey = wallet.publicKey
       /\ verify(utf8(numberToString(ev.challenge)), ev.data.challenge_proof,
                 wallet.publicKey)
       /\ \A d \in Challenges \ {ev.challenge} :
            ~verify(utf8(numberToString(d)), ev.data.challenge_proof,
                    wallet.publicKey)
       /\ ~verify(utf8(numberToString(ev.challenge)), ev.data.challenge_proof,
                  otherWallet.publicKey)

\* C13 witness: the step-1 frame with challenge 12 was answered; the proof
\* is the signature of the bytes of "12".
C13_Witness ==
  /\ ev.kind = "message" /\ ev.arg = 1
  /\ ev.challenge = 12
  /\ ev.wrote = "handshake"
  /\ ev.data.challenge_peer = 12
  /\ ev.data.challenge_proof = walletSign(wallet, << 49, 50 >>)

\* C14 (the claim as stated): the handshake is marked complete by a step >= 3
\* frame only if, on the socket that delivers it, a step-1 frame was
\* received and answered with the step-2 response before.
C14_ReadyOnlyAfterChallengeSent ==
  (ev.kind = "message" /\ ev.arg >= 3 /\ handshakeComplete)
    => responded[ev.call]

\* C15: a handshake frame whose step is neither 1 nor >= 3 is ignored: the
\* step that processes it changes no field of the client, of its sockets,
\* promises or timers, writes no frame and raises nothing.
C15_OtherStepsIgnored ==
  [][(ev'.kind = "message" /\ ev'.request = "handshake"
        /\ ev'.arg \in Steps /\ ev'.arg # 1 /\ ev'.arg < 3)
       => /\ UNCHANGED progVars
          /\ ev'.wrote = "none"
          /\ ev'.error = ErrNone]_vars

\* C15 witness: a frame with a negative step was processed while a call was
\* waiting for the handshake on an open socket, and the call still waits.
C15_Witness ==
  /\ ev.kind = "message" /\ ev.request = "handshake" /\ ev.arg = -1
  /\ readyState[ev.call] = "OPEN"
  /\ promise[ev.call] = "pending"
  /\ ~handshakeComplete

\* C16 (the claim as stated): every handshake frame the client writes is
\* the step-2 response written by the step that processes a received step-1
\* handshake frame.
C16_HandshakeFramesOnlyAsResponse ==
  ev.wrote = "handshake"
    => /\ ev.kind = "message"
       /\ ev.request = "handshake"
       /\ ev.arg = 1
       /\ ev.data.step = 2

\* C16 (amended): in every step other than a sendCustomMessage call, whose
\* frame carries the tag and payload the application passes, the client
\* writes a handshake frame only when it processes a received step-1
\* handshake frame, and that frame has step 2, never step 1; a step-1 frame
\* received is answered by at most that one frame.
C16_ResponderOnly ==
  /\ (ev.wrote = "handshake" /\ ev.kind # "sendCustomMessage")
       => /\ ev.kind = "message"
          /\ ev.request = "handshake"
          /\ ev.arg = 1
          /\ ev.data.step = 2
  /\ ev.data # NoData => (ev.wrote = "handshake" /\ ev.kind = "message")
  /\ ev.data.step # 1

\* C16 witness: a step-1 frame was answered on a client whose handshake was
\* already complete: the answer is again a step-2 frame.
C16_Witness ==
  /\ ev.kind = "message" /\ ev.arg = 1
  /\ ev.wrote = "handshake"
  /\ ev.data.step = 2
  /\ handshakeComplete

\* C17: a frame that parses is dispatched by its request tag to one
\* destination: 'handshake' to the handshake handler, 'transaction' (its
\* payload decoded) to the 'transaction' channel, 'block' to the 'block'
\* channel, any other tag t to 'message:<t>'; only a 'handshake' frame
\* reaches the handshake handler, and a frame that does not parse or whose
\* transaction payload does not decode is published nowhere.
C17_DispatchByTag ==
  ev.kind = "message"
    => /\ ev.request = "handshake" => ev.channel = "handshake"
       /\ (ev.request = "transaction" /\ ev.error = ErrNone)
            => ev.channel = "transaction"
       /\ ev.request = "block" => ev.channel = "block"
       /\ ev.request = "custom" => ev.channel = "message:custom"
       /\ ev.request = "ping" => ev.channel = "message:ping"
       /\ ev.request # "handshake" => (ev.arg = -2 /\ ev.wrote = "none")
       /\ (ev.request = "malformed"
             \/ (ev.request = "transaction" /\ ev.error # ErrNone))
            => ev.channel = "none"

\* C17 witness: a 'block' frame was published on the 'block' channel of a
\* client that is not ready.
C17_Witness ==
  /\ ev.kind = "message"
  /\ ev.request = "block"
  /\ ev.channel = "block"
  /\ ev.error = ErrNone
  /\ ~handshakeComplete

\* C18 (the claim as stated): the step that processes a frame that fails to
\* decode raises nothing out of the message handler, so that later frames
\* are still processed, and leaves connected, handshakeComplete, the attempt
\* counter and the socket as they were.
C18_DecodeFailureIsLocal ==
  [][(ev'.kind = "message" /\ ev'.error = ErrMalformed)
       => /\ ~crashed'
          /\ UNCHANGED << connected, handshakeComplete, reconnectAttempts,
                          socket, readyState >>]_vars

\* C19 (the claim as stated): at most one socket of the client is
\* connecting or open at any time.
C19_AtMostOneSocket ==
  Cardinality({c \in Calls : readyState[c] \in {"CONNECTING", "OPEN"}}) <= 1

\* C20: isReady() is false initially and in the state every 'close' leaves,
\* where both flags it reads are false; afterwards connected becomes true
\* only by the 'open' of a socket and handshakeComplete only by a received
\* handshake frame with step >= 3, so isReady() turns true only in one of
\* these two steps and only after both have happened since the close.
C20_ReadinessNotCarriedOver ==
  /\ ~isReady
  /\ [][/\ ev'.kind = "close"
             => (~connected' /\ ~handshakeComplete' /\ ~isReady')
        /\ (connected' /\ ~connected)
             => (ev'.kind = "open" /\ readyState[ev'.call] = "CONNECTING")
        /\ (handshakeComplete' /\ ~handshakeComplete)
             => (ev'.kind = "message" /\ ev'.request = "handshake"
                   /\ ev'.arg >= 3)
        /\ (isReady' /\ ~isReady) => ev'.kind \in {"open", "message"}]_vars

\* C20 witness: the client is ready again on a second socket after the
\* socket it had been ready on closed.
C20_Witness ==
  /\ isReady
  /\ ev.kind = "message" /\ ev.arg >= 3
  /\ readyState[ev.call] = "OPEN"
  /\ \E c \in Calls \ {ev.call} : readyState[c] = "CLOSED" /\ everOpen[c]
  /\ promise[ev.call] = "resolved"

\* the private key of w is the secret key of a key pair: its second half
\* is the public key of its first half
isKeyPair(w) ==
  fromHex(w.privateKey)
    = naclSecretKey(SubSeq(fromHex(w.privateKey), 1, crypto_sign_SEEDBYTES))

\* C21 (the claim as stated): for every transaction and every wallet, once
\* sign(wallet) has returned and the transaction has not been changed since,
\* verify(serialize(false), signature, wallet.publicKey) is true.
C21_SignThenVerify ==
  (op.kind = "sign" /\ ~op.threw)
    => verify(serialize(tx, FALSE), tx.signature, op.wallet.publicKey)

\* C21 for the wallets whose private key is the secret key of a key pair:
\* the signature sign(wallet) leaves verifies for serialize(false) under
\* the wallet's public key.
C21_KeyPairWallets ==
  (op.kind = "sign" /\ ~op.threw /\ isKeyPair(op.wallet))
    => verify(serialize(tx, FALSE), tx.signature, op.wallet.publicKey)

\* C21 witness: a transaction with a slip and data was signed with the
\* wallet of a key pair, and the signature verifies.
C21_Witness ==
  /\ op.kind = "sign" /\ ~op.threw /\ isKeyPair(op.wallet)
  /\ Len(tx.from) + Len(tx.to) > 0
  /\ tx.data # << >>
  /\ verify(serialize(tx, FALSE), tx.signature, op.wallet.publicKey)

\* C22: serialize(true) returns the bytes of serialize(false), which end
\* with the type byte, followed by the 64 bytes of the signature when a
\* signature is set, and by nothing when none is set; with a signature set
\* it is 64 bytes longer than serialize(false).
C22_SignatureAppended ==
  (op.kind = "serialize" /\ ~op.threw /\ op.value)
    => LET without == serialize(tx, FALSE)
       IN /\ without[Len(without)] = tx.type
          /\ SubSeq(op.bytes, 1, Len(without)) = without
          /\ IF tx.signature # << >>
             THEN /\ op.bytes = without \o fromHex(tx.signature)
                  /\ Len(op.bytes) = Len(without) + crypto_sign_BYTES
                  /\ Len(op.bytes) > Len(without)
             ELSE op.bytes = without

\* C22 witness: serialize(true) of a signed transaction with a slip and
\* data returned 64 bytes more than serialize(false).
C22_Witness ==
  /\ op.kind = "serialize" /\ ~op.threw /\ op.value
  /\ tx.signature # << >>
  /\ Len(tx.from) + Len(tx.to) > 0
  /\ tx.data # << >>
  /\ Len(op.bytes) = Len(serialize(tx, FALSE)) + 64

\* C23 (the claim as stated): the transaction the inbound 'transaction'
\* route decodes from the frame sendTransaction wrote for a transaction
\* equals that transaction, whatever its slips and its data.
C23_RouteRoundTrip ==
  (op.kind = "transmit") => (op.result = tx)

\* C24 (the claim as stated): Transaction.fromJSON(T.toJSON()) equals T in
\* timestamp, from, to, data, signature, type and txs_replacements, for
\* every type and every txs_replacements.
C24_JsonLossless ==
  (op.kind = "fromJSON")
    => /\ op.result.timestamp = tx.timestamp
       /\ op.result.from = tx.from
       /\ op.result.to = tx.to
       /\ op.result.data = tx.data
       /\ op.result.signature = tx.signature
       /\ op.result.type = tx.type
       /\ op.result.txs_replacements = tx.txs_replacements
       /\ op.result.undef = {}

\* C24 for the transactions whose txs_replacements is not 0: the round trip
\* through toJSON and fromJSON gives an equal transaction.
C24_LosslessButZero ==
  (op.kind = "fromJSON" /\ tx.txs_replacements # 0) => (op.result = tx)

\* C25: new Wallet(k), Wallet.fromPrivateKey(k) and
\* Wallet.fromJSON({privateKey: k}) throw the invalid-key error whenever k
\* does not decode to exactly 64 bytes, and no Wallet object holds such a
\* key.
C25_InvalidKeyRejected ==
  /\ (op.kind \in WalletEntryPoints
        /\ Len(fromHex(op.key)) # crypto_sign_SECRETKEYBYTES)
       => /\ op.threw
          /\ op.error = ErrInvalidKey
          /\ op.wallet = NoWallet
  /\ held # NoWallet
       => Len(fromHex(held.privateKey)) = crypto_sign_SECRETKEYBYTES

\* C25 witness: Wallet.fromPrivateKey('invalid-key') threw the invalid-key
\* error while the application held a wallet made from a valid key.
C25_Witness ==
  /\ op.kind = "fromPrivateKey"
  /\ op.key = InvalidKeyString
  /\ op.threw /\ op.error = ErrInvalidKey
  /\ held # NoWallet

\* C25 witness for the empty string
C25_WitnessEmpty ==
  /\ op.kind = "fromPrivateKey"
  /\ op.key = << >>
  /\ op.threw /\ op.error = ErrInvalidKey

\* C26: Wallet.fromJSON(W.toJSON()) is a wallet with the private key and
\* the public key of W, and the public key of every wallet is the one
\* getPublicKey derives from its private key.
C26_WalletRoundTrip ==
  /\ (op.kind = "walletRoundTrip")
       => /\ ~op.threw
          /\ op.wallet.privateKey = held.privateKey
          /\ op.wallet.publicKey = held.publicKey
          /\ op.wallet.publicKey = getPublicKey(op.wallet.privateKey)
  /\ (held # NoWallet)
       => /\ held.publicKey = getPublicKey(held.privateKey)
          /\ isValidPublicKey(held.publicKey)

\* C26 witness: the wallet of a generated key pair went through toJSON and
\* fromJSON and came back with both keys.
C26_Witness ==
  /\ op.kind = "walletRoundTrip" /\ ~op.threw
  /\ held = Wallet(generateKeyPair(Seed(18)))
  /\ op.wallet = held

\* C27: verify(data, signature, publicKey) never throws, and it returns
\* false when the signature does not decode to 64 bytes or the public key
\* does not decode to 32 bytes.
C27_VerifyNeverThrows ==
  (op.kind = "verify")
    => /\ ~op.threw
       /\ (\/ Len(fromHex(op.key)) # crypto_sign_BYTES
           \/ Len(fromHex(op.wallet.publicKey)) # crypto_sign_PUBLICKEYBYTES)
            => (op.value = FALSE)

\* C27 witness: verify was called with a signature that is not hex and the
\* public key of the wallet held, and returned false.
C27_Witness ==
  /\ op.kind = "verify" /\ ~op.threw
  /\ op.key = InvalidKeyString
  /\ held # NoWallet /\ op.wallet.publicKey = held.publicKey
  /\ op.value = FALSE

\* C27 witness for a signature that verifies
C27_WitnessTrue ==
  /\ op.kind = "verify" /\ ~op.threw
  /\ op.value = TRUE

\* C28 (the claim as stated): disconnect() cancels both pending timers.
\* While this.socket is null after a disconnect() no connect() has run
\* since, so every pending timer was pending when disconnect() returned:
\* none of them fires, neither the 30 s timer (which would reject the
\* interrupted connect()) nor the reconnect timer (which would run
\* connect()).
C28_DisconnectCancelsTimers ==
  [][(disconnectCalled /\ socket = Null)
       => /\ ev'.kind # "handshakeTimer"
          /\ ev'.kind # "reconnectTimer"]_vars

\* C28, the 30 s timer alone: after disconnect() the timer of the
\* interrupted connect() does not reject its promise.
C28_NoTimeoutRejectionAfterDisconnect ==
  [][(disconnectCalled /\ socket = Null /\ ev'.kind = "handshakeTimer")
       => promise' = promise]_vars

\* C29 (the claim as stated): every socket error is delivered as an 'error'
\* event, without an exception leaving the handler, and rejects the
\* connect() call of that socket when it is still pending, also when the
\* socket has opened and the handshake has not completed.
C29_ErrorEmittedAndRejects ==
  [][(ev'.kind = "error")
       => /\ ~crashed'
          /\ (promise[ev'.call] = "pending")
               => (promise'[ev'.call] = "rejected: socket error")]_vars

\* C29 with an 'error' listener registered, for the error after the open:
\* the pending connect() of a socket that has opened, on a client whose
\* handshake has not completed, is rejected by the socket's error.
C29_ErrorAfterOpenRejects ==
  [][(ev'.kind = "error" /\ errorListener /\ everOpen[ev'.call]
        /\ ~handshakeComplete /\ promise[ev'.call] = "pending")
       => (promise'[ev'.call] = "rejected: socket error")]_vars

\* C30: the step of the 30 s timer changes nothing but the promise of its
\* own connect() call, which it leaves as it was or rejects with the
\* handshake-timeout error: no socket is closed and no field of the client
\* changes.  A step >= 3 handshake frame that arrives afterwards on the
\* socket of the rejected call, on a client that is still connected, makes
\* the client ready.
C30_TimeoutOnlyRejects ==
  [][/\ (ev'.kind = "handshakeTimer")
          => /\ UNCHANGED << socket, readyState, everOpen, connected,
                             handshakeComplete, reconnectAttempts,
                             reconnectTimers, autoReconnect, crashed >>
             /\ \A c \in Calls \ {ev'.call} : promise'[c] = promise[c]
             /\ promise'[ev'.call]
                  \in {promise[ev'.call], "rejected: Handshake timeout"}
     /\ (ev'.kind = "message" /\ ev'.arg >= 3 /\ connected
           /\ promise[ev'.call] = "rejected: Handshake timeout")
          => /\ connected' /\ handshakeComplete'
             /\ readyState'[ev'.call] = readyState[ev'.call]
             /\ promise'[ev'.call] = "rejected: Handshake timeout"]_vars

\* C30 witness: the connect() call of the client's open socket was rejected
\* by the timeout, then a step >= 3 frame arrived on that socket and the
\* client is ready.
C30_Witness ==
  /\ ev.kind = "message" /\ ev.arg >= 3
  /\ socket = ev.call
  /\ promise[ev.call] = "rejected: Handshake timeout"
  /\ readyState[ev.call] = "OPEN"
  /\ isReady

\* C31: sign(wallet) signs serialize(false), which does not depend on the
\* signature field: serialize(false) is the same before and after the
\* call, the signature set is the wallet's signature of it, and signing
\* again with the same wallet sets the same signature.
C31_SignatureNotSelfCovering ==
  [][(op'.kind = "sign" /\ ~op'.threw)
       => /\ serialize(tx', FALSE) = serialize(tx, FALSE)
          /\ tx'.signature = walletSign(held, serialize(tx, FALSE))
          /\ tx'.signature
               = walletSign(held, serialize([tx EXCEPT !.signature = << >>],
                                            FALSE))
          /\ sign(tx', held) = tx']_vars

\* C31 witness: a transaction with a slip that carried a signature of the
\* wallet held was signed again with it and has the same signature.
C31_Witness ==
  /\ op.kind = "sign" /\ ~op.threw
  /\ op.key # << >>
  /\ op.key = tx.signature
  /\ Len(tx.from) + Len(tx.to) > 0

\* two transactions differ in a field other than the signature
differsBesidesSignature(a, b) ==
  [a EXCEPT !.signature = << >>] # [b EXCEPT !.signature = << >>]

\* C32 (the claim as stated): two transactions that differ in any of
\* timestamp, from, to, data, type or txs_replacements have different
\* signing payloads serialize(false), and a signature made for the one is
\* not a signature of the other; taken over the transaction before and
\* after each step of the application.
C32_PayloadCoversEveryField ==
  [][(differsBesidesSignature(tx, tx')
        /\ ~serializeThrows(tx) /\ ~serializeThrows(tx'))
       => /\ serialize(tx', FALSE) # serialize(tx, FALSE)
          /\ sign(tx', held).signature # sign(tx, held).signature]_vars

\* C32 without txs_replacements: a step that changes the timestamp, a slip
\* list, the data or the type changes serialize(false).
C32_PayloadCoversSerializedFields ==
  [][(differsBesidesSignature([tx EXCEPT !.txs_replacements = 0],
                              [tx' EXCEPT !.txs_replacements = 0])
        /\ ~serializeThrows(tx) /\ ~serializeThrows(tx'))
       => serialize(tx', FALSE) # serialize(tx, FALSE)]_vars

\* the fixed layout of serialize(false) holds for bytes b and transaction
\* t: the length, the three count fields and the place of the type byte
hasFixedLayout(b, t) ==
  LET slips == Len(t.from) + Len(t.to)
      toAt == 12 + 41 * Len(t.from)
      dataAt == 16 + 41 * slips
  IN /\ Len(b) = 21 + 41 * slips + Len(t.data)
     /\ SubSeq(b, 1, 8) = uintBE(t.timestamp, 8)
     /\ SubSeq(b, 9, 12) = uintBE(Len(t.from), 4)
     /\ SubSeq(b, toAt + 1, toAt + 4) = uintBE(Len(t.to), 4)
     /\ SubSeq(b, dataAt + 1, dataAt + 4) = uintBE(Len(t.data), 4)
     /\ SubSeq(b, dataAt + 5, dataAt + 4 + Len(t.data)) = t.data
     /\ b[Len(b)] = t.type

\* C33 (the claim as stated): the bytes serialize(false) returns follow the
\* fixed layout for every transaction: their length is
\* 21 + 41 * (|from| + |to|) + |data|, and the count and length fields, at
\* their places, equal the numbers of slips and of data bytes.
C33_FixedLayout ==
  (op.kind = "serialize" /\ ~op.threw /\ ~op.value)
    => hasFixedLayout(op.bytes, tx)

\* C33 for the transactions whose slips all carry a public key of 64 hex
\* digits.
C33_FixedLayoutOfHexKeys ==
  (/\ op.kind = "serialize" /\ ~op.threw /\ ~op.value
   /\ \A i \in 1..Len(tx.from) : Len(fromHex(tx.from[i].publicKey)) = 32
   /\ \A i \in 1..Len(tx.to) : Len(fromHex(tx.to[i].publicKey)) = 32)
    => hasFixedLayout(op.bytes, tx)

\* a byte sequence without its leading zero bytes
RECURSIVE stripZeros(_)
stripZeros(b) ==
  IF b # << >> /\ Head(b) = 0 THEN stripZeros(Tail(b)) ELSE b

\* the number of bytes serializeSlips wrote for the slips
RECURSIVE slipsLen(_)
slipsLen(slips) ==
  IF slips = << >> THEN 0
  ELSE Len(fromHex(Head(slips).publicKey)) + 9 + slipsLen(Tail(slips))

\* the 8 bytes of the amount of slip i of a slip list written after the
\* first `before` bytes of b
amountField(b, before, slips, i) ==
  LET at == before + slipsLen(SubSeq(slips, 1, i - 1))
              + Len(fromHex(slips[i].publicKey))
  IN SubSeq(b, at + 1, at + 8)

\* the amounts of the slips of a transaction
amountsOf(t) ==
  {t.from[i].amount : i \in 1..Len(t.from)}
    \cup {t.to[i].amount : i \in 1..Len(t.to)}

\* C34: serialize fails with a RangeError, and returns no bytes, exactly
\* when a slip's amount is negative or greater than 2^64 - 1; otherwise the
\* 8 bytes written for each slip's amount are the big-endian digits of
\* exactly that amount (nothing wrapped around, nothing cut off).
C34_AmountEncoding ==
  (op.kind = "serialize")
    => /\ op.threw
            <=> \E a \in amountsOf(tx) : a.neg \/ Len(a.mag) > Len(MaxUint64.mag)
       /\ op.threw => (op.error = "RangeError" /\ op.bytes = << >>)
       /\ ~op.threw
            => /\ \A i \in 1..Len(tx.from) :
                    stripZeros(amountField(op.bytes, 12, tx.from, i))
                      = tx.from[i].amount.mag
               /\ \A i \in 1..Len(tx.to) :
                    stripZeros(amountField(op.bytes,
                                           16 + slipsLen(tx.from), tx.to, i))
                      = tx.to[i].amount.mag

\* C34 witness: serialize threw on a transaction whose only out-of-range
\* amount is 2^64.
C34_Witness ==
  /\ op.kind = "serialize" /\ op.threw
  /\ TwoTo64 \in amountsOf(tx)
  /\ \A a \in amountsOf(tx) : ~a.neg

\* C34 witness: serialize returned bytes for a transaction with the amounts
\* 2^64 - 1 and 2^32.
C34_WitnessInRange ==
  /\ op.kind = "serialize" /\ ~op.threw
  /\ amountsOf(tx) = {MaxUint64, TwoTo32}

\* list b is list a with one Normal slip of the application's inputs added
\* at the end
appendedOne(a, b) ==
  /\ Len(b) = Len(a) + 1
  /\ SubSeq(b, 1, Len(a)) = a
  /\ b[Len(b)].type = Normal
  /\ b[Len(b)].publicKey \in SlipKeys
  /\ b[Len(b)].amount \in Amounts

C39_SignatureMatchesContents ==
  (tx.signature # << >>)
    => /\ ~serializeThrows(tx)
       /\ tx.signature = walletSign(held, serialize(tx, FALSE))

\* C36 (the claim as stated): in every reachable state in which isReady()
\* returns true the client's current socket exists and is open, and a
\* sendTransaction made in such a state does not fail with the
\* 'WebSocket not connected' error.
C36_ReadyImpliesOpenSocket ==
  /\ isReady => (socket # Null /\ readyState[socket] = "OPEN")
  /\ (ev.kind = "sendTransaction" /\ isReady)
       => ev.error # ErrSocketNotConnected

\* C36 between disconnect() and the close event only: the state right after
\* a disconnect() call is not ready.
C36_NotReadyAfterDisconnect ==
  (ev.kind = "disconnect") => ~isReady

\* C37 (the claim as stated): the promise of every connect() call is
\* resolved or rejected no later than when the call's 30 000 ms timer
\* fires: a promise is pending only while its timer is.
C37_SettledByTimeout ==
  \A c \in Calls : (promise[c] = "pending") => c \in SeqMembers(hsTimers)

\* C38 (the claim as stated): the 'close' event of a socket that a later
\* connect() has superseded, arriving while the client's current socket is
\* open, leaves connected and handshakeComplete as they were and schedules
\* no reconnect.
C38_StaleCloseIgnored ==
  [][(/\ ev'.kind = "close"
      /\ socket # Null
      /\ ev'.call # socket
      /\ readyState[socket] = "OPEN")
       => /\ connected' = connected
          /\ handshakeComplete' = handshakeComplete
          /\ reconnectTimers' = reconnectTimers
          /\ reconnectAttempts' = reconnectAttempts]_vars

\* C40 (the claim as stated): the promise of a connect() call made by the
\* reconnect timer, which no code holds, is never rejected: no such attempt
\* ends as an unhandled promise rejection.
C40_NoUnhandledRejection ==
  \A c \in Calls :
    unawaited[c] => promise[c] \in {"none", "pending", "resolved"}

====
